---------------------------- MODULE Spec2Model ----------------------------
(***************************************************************************)
(* parse_kontoauszug.py: the trade extraction loop over the lines of an    *)
(* account statement, the position aggregation loop over the extracted     *)
(* trades, the held filter and the CSV row computation.                    *)
(*                                                                         *)
(* Text.  A line is a sequence of symbols.  A symbol is a string: one      *)
(* character of a numeric field ("0".."9", ",", "."), the blank " ", the   *)
(* currency marker, or one of the words of the pattern taken as a whole    *)
(* ("Buy", "Sell", "trade", "quantity:", a 12-character identifier, a word *)
(* of a name).                                                             *)
(*                                                                         *)
(* Numbers.  Python's float is a binary floating-point number with a 53    *)
(* bit significand, rounded to nearest, ties to even, after every          *)
(* operation.  The model keeps that arithmetic and narrows the significand *)
(* to MantBits bits.  A number is [m |-> m, e |-> e], standing for         *)
(* m * 2^e, with m odd, or m = 0 and e = 0, so that equal numbers are      *)
(* equal records.  Infinities, NaN and the sign of zero are not modelled.  *)
(***************************************************************************)
EXTENDS Integers, Sequences, FiniteSets

\* Bits of the significand of a float in the model (53 in the program).
MantBits == 11

\* Longest statement, in lines, of the specification Spec.
MaxLines == 4

\* Longest statement, in one-line trade entries, of the specification SpecTrades.
MaxTrades == 3

---------------------------------------------------------------------------
(* Floating-point arithmetic.                                              *)

RECURSIVE Pow2(_)
Pow2(n) == IF n <= 0 THEN 1 ELSE 2 * Pow2(n - 1)

RECURSIVE Pow5(_)
Pow5(n) == IF n <= 0 THEN 1 ELSE 5 * Pow5(n - 1)

\* Number of bits of the natural number n (0 for 0).
RECURSIVE BitLen(_)
BitLen(n) == IF n <= 0 THEN 0 ELSE 1 + BitLen(n \div 2)

Abs(x) == IF x < 0 THEN -x ELSE x

Zero == [m |-> 0, e |-> 0]

\* The record of m * 2^e.
RECURSIVE Norm(_, _)
Norm(m, e) ==
    IF m = 0 THEN Zero
    ELSE IF m % 2 = 0 THEN Norm(m \div 2, e + 1)
    ELSE [m |-> m, e |-> e]

\* sign * v rounded to MantBits bits, to nearest, ties to even, where v is
\* mag * 2^e when sticky is FALSE, and lies strictly between mag * 2^e and
\* (mag + 1) * 2^e when sticky is TRUE (mag then has more than MantBits bits).
FRound(sign, mag, e, sticky) ==
    LET len == BitLen(mag)
    IN  IF len <= MantBits THEN Norm(sign * mag, e)
        ELSE LET k    == len - MantBits
                 q    == mag \div Pow2(k)
                 r    == mag % Pow2(k)
                 half == Pow2(k - 1)
                 up   == \/ r > half
                         \/ r = half /\ (sticky \/ q % 2 = 1)
             IN  Norm(sign * (IF up THEN q + 1 ELSE q), e + k)

\* n / d * 2^e, correctly rounded, for n >= 0 and d > 0.
RoundRat(sign, n, d, e) ==
    IF n = 0 THEN Zero
    ELSE LET want == BitLen(d) + MantBits + 2 - BitLen(n)
             s    == IF want > 0 THEN want ELSE 0
             num  == n * Pow2(s)
         IN  FRound(sign, num \div d, e - s, num % d # 0)

Sign(x) == IF x.m < 0 THEN -1 ELSE 1

\* One more than the position of the leading bit of a nonzero x.
Top(x) == BitLen(Abs(x.m)) + x.e

FNeg(x) == [m |-> -x.m, e |-> x.e]

\* x + y.  An operand below a quarter of the other's last bit does not
\* change the rounded sum.
FAdd(x, y) ==
    IF x.m = 0 THEN y
    ELSE IF y.m = 0 THEN x
    ELSE IF Top(x) - Top(y) > MantBits + 2 THEN x
    ELSE IF Top(y) - Top(x) > MantBits + 2 THEN y
    ELSE LET e0  == IF x.e < y.e THEN x.e ELSE y.e
             sum == x.m * Pow2(x.e - e0) + y.m * Pow2(y.e - e0)
         IN  FRound(IF sum < 0 THEN -1 ELSE 1, Abs(sum), e0, FALSE)

\* x - y
FSub(x, y) == FAdd(x, FNeg(y))

\* x * y
FMul(x, y) == FRound(Sign(x) * Sign(y), Abs(x.m) * Abs(y.m), x.e + y.e, FALSE)

\* x / y, for y # 0
FDiv(x, y) == RoundRat(Sign(x) * Sign(y), Abs(x.m), Abs(y.m), x.e - y.e)

\* x < y: the rounded difference has the sign of the exact one.
FLess(x, y) == FSub(x, y).m < 0

\* x > y
FGreater(x, y) == FLess(y, x)

\* round(x, ndigits): x to the nearest multiple of 10^-ndigits, ties to even,
\* and that decimal to the nearest float.
PyRound(x, ndigits) ==
    IF x.e + ndigits >= 0 THEN x
    ELSE LET num   == Abs(x.m) * Pow5(ndigits)
             shift == -(x.e + ndigits)
         IN  IF shift > BitLen(num) + 1 THEN Zero
             ELSE LET den == Pow2(shift)
                      q   == num \div den
                      r   == num % den
                      up  == \/ 2 * r > den
                             \/ 2 * r = den /\ q % 2 = 1
                      n   == IF up THEN q + 1 ELSE q
                  IN  RoundRat(Sign(x), n, Pow5(ndigits), -ndigits)

---------------------------------------------------------------------------
(* Text: symbols, lines, str.strip, str.replace, float.                    *)

SP == " "

\* The currency marker of the pattern, one symbol.
EUR == "EUR"

Digits == {"0", "1", "2", "3", "4", "5", "6", "7", "8", "9"}

\* The characters of [\d,.]
NumChars == Digits \cup {",", "."}

\* The symbols that are 12 characters of [A-Z0-9].
IsinSymbols == {"US0000000001", "DE0000000002"}

DigitVal(c) ==
    CASE c = "0" -> 0 [] c = "1" -> 1 [] c = "2" -> 2 [] c = "3" -> 3
      [] c = "4" -> 4 [] c = "5" -> 5 [] c = "6" -> 6 [] c = "7" -> 7
      [] c = "8" -> 8 [] c = "9" -> 9

\* s[p], or "" past the end of s.
At(s, p) == IF p >= 1 /\ p <= Len(s) THEN s[p] ELSE ""

\* s[from..to]
Slice(s, from, to) == IF to < from THEN << >> ELSE SubSeq(s, from, to)

\* str.strip(): s without its leading and trailing blanks.
RECURSIVE Strip(_)
Strip(s) ==
    IF s = << >> THEN s
    ELSE IF Head(s) = SP THEN Strip(Tail(s))
    ELSE IF s[Len(s)] = SP THEN Strip(SubSeq(s, 1, Len(s) - 1))
    ELSE s

\* str.replace(',', '')
IsNotComma(c) == c # ","
RemoveCommas(s) == SelectSeq(s, IsNotComma)

IsDigit(c) == c \in Digits
IsDot(c) == c = "."

\* The value of a string of digits, read as a decimal integer.
RECURSIVE DigitsInt(_)
DigitsInt(s) ==
    IF s = << >> THEN 0
    ELSE 10 * DigitsInt(SubSeq(s, 1, Len(s) - 1)) + DigitVal(s[Len(s)])

\* Whether float(s) returns, for s a string of characters of [\d,.]: it
\* raises ValueError unless s is digits with at most one "." among them, and
\* at least one digit.
FloatOk(s) ==
    /\ \A n \in 1..Len(s) : IsDigit(s[n]) \/ IsDot(s[n])
    /\ Len(SelectSeq(s, IsDigit)) >= 1
    /\ Len(SelectSeq(s, IsDot)) <= 1

\* Number of characters of s after its first ".", 0 without one.
RECURSIVE FracLen(_)
FracLen(s) ==
    IF s = << >> THEN 0
    ELSE IF Head(s) = "." THEN Len(s) - 1
    ELSE FracLen(Tail(s))

\* float(s) where FloatOk(s): the decimal, correctly rounded.
Float(s) ==
    RoundRat(1, DigitsInt(SelectSeq(s, IsDigit)), Pow5(FracLen(s)), -FracLen(s))

---------------------------------------------------------------------------
(* re.search of the trade pattern                                          *)
(*   (Buy|Sell)\s+trade\s+([A-Z0-9]{12})\s+(.+?),\s*quantity:\s*           *)
(*   ([\d,.]+)\s+<marker>([\d,.]+)                                         *)

\* The first position from p on that holds no blank.
RECURSIVE SkipSp(_, _)
SkipSp(s, p) == IF At(s, p) = SP THEN SkipSp(s, p + 1) ELSE p

\* The first position from p on that holds no character of [\d,.].
RECURSIVE NumEnd(_, _)
NumEnd(s, p) == IF At(s, p) \in NumChars THEN NumEnd(s, p + 1) ELSE p

\* The positions of the rest of the pattern when its "," is at c:
\* ,\s*quantity:\s*([\d,.]+)\s+<marker>([\d,.]+).  Each [\d,.]+ is greedy
\* and takes the whole run of such characters.
TailPos(s, c) ==
    LET kw == SkipSp(s, c + 1)
        q1 == SkipSp(s, kw + 1)
        q2 == NumEnd(s, q1)
        mk == SkipSp(s, q2)
        a1 == mk + 1
        a2 == NumEnd(s, a1)
    IN  [kw |-> kw, q1 |-> q1, q2 |-> q2, mk |-> mk, a1 |-> a1, a2 |-> a2]

TailOk(s, c) ==
    LET t == TailPos(s, c)
    IN  /\ At(s, c) = ","
        /\ At(s, t.kw) = "quantity:"
        /\ t.q2 > t.q1
        /\ t.mk > t.q2
        /\ At(s, t.mk) = EUR
        /\ t.a2 > t.a1

\* The positions of the head of the pattern when it starts at p:
\* (Buy|Sell)\s+trade\s+([A-Z0-9]{12})\s+ ; the name starts after at least
\* one of the blanks of a..b-1.
HeadPos(s, p) ==
    LET tr == SkipSp(s, p + 1)
        id == SkipSp(s, tr + 1)
        a  == id + 1
        b  == SkipSp(s, a)
    IN  [tr |-> tr, id |-> id, a |-> a, b |-> b]

HeadOk(s, p) ==
    LET h == HeadPos(s, p)
    IN  /\ At(s, p) \in {"Buy", "Sell"}
        /\ h.tr > p + 1
        /\ At(s, h.tr) = "trade"
        /\ h.id > h.tr + 1
        /\ At(s, h.id) \in IsinSymbols
        /\ h.b > h.a

\* The positions of "," that end a name starting at ns: (.+?) takes at
\* least one symbol.
Commas(s, ns) == {c \in (ns + 1)..Len(s) : TailOk(s, c)}

Min(S) == CHOOSE x \in S : \A y \in S : x <= y
Max(S) == CHOOSE x \in S : \A y \in S : x >= y

\* Whether the pattern matches starting at p.
MatchesAt(s, p) == HeadOk(s, p) /\ Commas(s, HeadPos(s, p).a + 1) # {}

\* The groups of the match starting at p: \s+ before the name is greedy, so
\* the name starts as late as a match allows; (.+?) is lazy, so it ends at
\* the first "," a match allows.
Groups(s, p) ==
    LET h  == HeadPos(s, p)
        ns == Max({n \in (h.a + 1)..h.b : Commas(s, n) # {}})
        c  == Min(Commas(s, ns))
        t  == TailPos(s, c)
    IN  [g1 |-> s[p],
         g2 |-> s[h.id],
         g3 |-> Slice(s, ns, c - 1),
         g4 |-> Slice(s, t.q1, t.q2 - 1),
         g5 |-> Slice(s, t.a1, t.a2 - 1)]

\* re.search: << >> without a match, else the groups of the leftmost match.
Search(s) ==
    LET starts == {p \in 1..Len(s) : MatchesAt(s, p)}
    IN  IF starts = {} THEN << >> ELSE << Groups(s, Min(starts)) >>

---------------------------------------------------------------------------
(* The statements the model runs the program on.                           *)

IS1 == "US0000000001"
IS2 == "DE0000000002"

\* A trade entry on one line.
EntryLine(action, isin, name, qty, amt) ==
    << action, SP, "trade", SP, isin, SP >> \o name
        \o << ",", SP, "quantity:", SP >> \o qty \o << SP, EUR >> \o amt

\* The entries of the statements.
BuyAt100 ==
    EntryLine("Buy", IS1, << "ACME" >>, << "1", "0" >>,
              << "1", ",", "0", "0", "0" >>)
BuyAt200 ==
    EntryLine("Buy", IS1, << "ACME" >>, << "1", "0" >>,
              << "2", ",", "0", "0", "0" >>)
Sell4 == EntryLine("Sell", IS1, << "ACME" >>, << "4" >>, << "4", "0", "0" >>)
Sell5 ==
    EntryLine("Sell", IS1, << "ACME", SP, "Corp" >>, << "5" >>,
              << "5", "0", "0" >>)
BuyHalfMilli ==
    EntryLine("Buy", IS2, << "Beta" >>, << "0", ".", "0", "0", "0", "5" >>,
              << "1" >>)
BuyMilli ==
    EntryLine("Buy", IS2, << "Beta" >>, << "0", ".", "0", "0", "1" >>, << "1" >>)
BuyTwoMilli ==
    EntryLine("Buy", IS2, << "Beta" >>, << "0", ".", "0", "0", "2" >>, << "1" >>)
SellTwoMilli ==
    EntryLine("Sell", IS2, << "Beta" >>, << "0", ".", "0", "0", "2" >>, << "1" >>)
SellNone == EntryLine("Sell", IS2, << "Beta" >>, << "0" >>, << "0" >>)
BuyNone == EntryLine("Buy", IS2, << "Beta", SP, "AG" >>, << "0" >>, << "5" >>)

\* The lines of the statements of Spec: an empty line, an entry on one line,
\* an entry wrapped over four lines, and two more ends for it, one with a
\* quantity that is no number and one with the quantity 0.
LineSet ==
    { << >>,
      BuyAt100,
      << "Sell", SP, "trade" >>,
      << IS1, SP, "ACME" >>,
      << "Corp", ",", SP, "quantity:" >>,
      << "4", SP, EUR, "4", "0", "0" >>,
      << "1", ".", "2", ".", "3", SP, EUR, "5" >>,
      << "0", SP, EUR, "5" >> }

\* The lines of the statements of SpecTrades: each is one whole entry.
EntryLines ==
    { BuyAt100, BuyAt200, Sell4, Sell5, BuyHalfMilli, BuyMilli, BuyTwoMilli,
      SellTwoMilli, SellNone, BuyNone }

\* The statements of at most n lines of the set L.
Statements(L, n) == UNION {[1..k -> L] : k \in 0..n}

---------------------------------------------------------------------------
(* The program.                                                            *)

VARIABLES
    lines,      \* all_text.split('\n')
    i,          \* the line position of the extraction loop, from 0
    trades,     \* the list of the extracted trades
    t,          \* the number of trades the aggregation loop has taken
    positions,  \* the dict of the positions, by isin
    held,       \* the dict of the positions still held
    rows,       \* the rows written to the CSV file, by isin
    pc          \* "extract", "aggregate", "filter", "csv", "done", or
                \* "ValueError" when float() has raised

vars == << lines, i, trades, t, positions, held, rows, pc >>

\* The empty dict.
EmptyDict == << >>

\* The literal 0.001 of the held filter.
HeldEpsilon == Float(<< "0", ".", "0", "0", "1" >>)

\* str.lower() of a matched action.
Lower(action) == IF action = "Buy" THEN "buy" ELSE "sell"

\* The window at line position p: the line and the up to 3 lines after it,
\* each stripped, joined by blanks.
RECURSIVE Window(_, _, _)
Window(ls, p, j) ==
    IF j = 0 THEN Strip(ls[p + 1])
    ELSE IF p + j < Len(ls)
         THEN Window(ls, p, j - 1) \o << SP >> \o Strip(ls[p + j + 1])
         ELSE Window(ls, p, j - 1)

Combined(ls, p) == Window(ls, p, 3)

\* price_per_share with the operands of the division exchanged.
PricePerShareSwapped(quantity, amount) ==
    IF FGreater(quantity, Zero) THEN FDiv(quantity, amount) ELSE Zero

\* price_per_share
PricePerShare(quantity, amount) ==
    IF FGreater(quantity, Zero) THEN FDiv(amount, quantity) ELSE Zero

\* The dict appended for a match whose numbers float() accepts.
TradeOf(match) ==
    LET quantity == Float(RemoveCommas(match.g4))
        amount   == Float(RemoveCommas(match.g5))
    IN  [action   |-> Lower(match.g1),
         isin     |-> match.g2,
         name     |-> Strip(match.g3),
         quantity |-> quantity,
         amount   |-> amount,
         price    |-> PricePerShare(quantity, amount)]

\* Whether float() raises on a number of the match.
Raises(match) ==
    \/ ~FloatOk(RemoveCommas(match.g4))
    \/ ~FloatOk(RemoveCommas(match.g5))

\* One pass of the extraction loop.
ExtractStep ==
    /\ pc = "extract"
    /\ i < Len(lines)
    /\ LET match == Search(Combined(lines, i))
       IN  IF match = << >>
           THEN /\ i' = i + 1
                /\ UNCHANGED << trades, pc >>
           ELSE IF Raises(match[1])
           THEN /\ pc' = "ValueError"
                /\ UNCHANGED << i, trades >>
           ELSE /\ trades' = Append(trades, TradeOf(match[1]))
                /\ i' = i + 1
                /\ UNCHANGED pc
    /\ UNCHANGED << lines, t, positions, held, rows >>

\* The extraction loop ends; positions = {}.
StartAggregate ==
    /\ pc = "extract"
    /\ ~(i < Len(lines))
    /\ positions' = EmptyDict
    /\ t' = 0
    /\ pc' = "aggregate"
    /\ UNCHANGED << lines, i, trades, held, rows >>

\* The position created for the first trade of an isin.
NewPosition(tr) ==
    [isin           |-> tr.isin,
     name           |-> tr.name,
     total_qty      |-> Zero,
     total_invested |-> Zero,
     buy_qty        |-> Zero,
     sell_qty       |-> Zero]

\* A buy that leaves buy_qty alone.
BuySkipsBuyQty(pos, tr) ==
    [pos EXCEPT !.total_qty      = FAdd(@, tr.quantity),
                !.total_invested = FAdd(@, tr.amount)]

\* The position pos after a buy.
Buy(pos, tr) ==
    [pos EXCEPT !.buy_qty        = FAdd(@, tr.quantity),
                !.total_qty      = FAdd(@, tr.quantity),
                !.total_invested = FAdd(@, tr.amount)]

\* total_invested after a sell, reduced by avg_buy instead of
\* avg_buy * quantity.
SellInvestedNoQuantity(pos, quantity) ==
    LET avg_buy == FDiv(pos.total_invested, pos.buy_qty)
        reduced == FSub(pos.total_invested, avg_buy)
    IN  IF FLess(reduced, Zero) THEN Zero ELSE reduced

\* total_invested after a sell, without the clamp at 0.
SellInvestedNoClamp(pos, quantity) ==
    LET avg_buy == FDiv(pos.total_invested, pos.buy_qty)
    IN  FSub(pos.total_invested, FMul(avg_buy, quantity))

\* total_invested after a sell of quantity from a position with buy_qty > 0.
SellInvested(pos, quantity) ==
    LET avg_buy == FDiv(pos.total_invested, pos.buy_qty)
        reduced == FSub(pos.total_invested, FMul(avg_buy, quantity))
    IN  IF FLess(reduced, Zero) THEN Zero ELSE reduced

\* A sell that leaves total_invested alone.
SellKeepsInvested(pos, tr) ==
    [pos EXCEPT !.sell_qty  = FAdd(@, tr.quantity),
                !.total_qty = FSub(@, tr.quantity)]

\* The position pos after a sell.
Sell(pos, tr) ==
    [pos EXCEPT !.sell_qty       = FAdd(@, tr.quantity),
                !.total_qty      = FSub(@, tr.quantity),
                !.total_invested = IF FGreater(pos.buy_qty, Zero)
                                   THEN SellInvested(pos, tr.quantity)
                                   ELSE @]

\* The dict d with d[key] = value.
Put(d, key, value) ==
    [k \in DOMAIN d \cup {key} |-> IF k = key THEN value ELSE d[k]]

\* An aggregation pass that takes the name of every trade.
AggregateRenames(pos, tr) ==
    LET key == tr.isin
        old == IF key \in DOMAIN pos THEN [pos[key] EXCEPT !.name = tr.name]
               ELSE NewPosition(tr)
    IN  Put(pos, key, IF tr.action = "buy" THEN Buy(old, tr)
                      ELSE IF tr.action = "sell" THEN Sell(old, tr)
                      ELSE old)

\* positions after the pass of the aggregation loop for the trade tr.
Aggregate(pos, tr) ==
    LET key == tr.isin
        old == IF key \in DOMAIN pos THEN pos[key] ELSE NewPosition(tr)
    IN  Put(pos, key, IF tr.action = "buy" THEN Buy(old, tr)
                      ELSE IF tr.action = "sell" THEN Sell(old, tr)
                      ELSE old)

\* One pass of the aggregation loop.
AggregateStep ==
    /\ pc = "aggregate"
    /\ t < Len(trades)
    /\ positions' = Aggregate(positions, trades[t + 1])
    /\ t' = t + 1
    /\ UNCHANGED << lines, i, trades, held, rows, pc >>

\* A held filter with >= for >.
IsHeldAtLeast(pos) == ~FLess(pos.total_qty, HeldEpsilon)

\* Whether a position is still held.
IsHeld(pos) == FGreater(pos.total_qty, HeldEpsilon)

\* The aggregation loop ends; held is filtered from positions.
FilterHeld ==
    /\ pc = "aggregate"
    /\ ~(t < Len(trades))
    /\ held' = [k \in {x \in DOMAIN positions : IsHeld(positions[x])}
                    |-> positions[k]]
    /\ pc' = "csv"
    /\ UNCHANGED << lines, i, trades, t, positions, rows >>

\* avg_price of a row.
AvgPrice(pos) ==
    IF FGreater(pos.buy_qty, Zero)
    THEN PyRound(FDiv(pos.total_invested, pos.buy_qty), 2)
    ELSE Zero

\* The row of a held position.
Row(pos) ==
    [name      |-> pos.name,
     isin      |-> pos.isin,
     qty       |-> PyRound(pos.total_qty, 6),
     avg_price |-> AvgPrice(pos),
     currency  |-> "EUR"]

\* The rows are written, one for each held position.  Their order in the
\* file, by name, is not kept.
WriteCSV ==
    /\ pc = "csv"
    /\ rows' = [k \in DOMAIN held |-> Row(held[k])]
    /\ pc' = "done"
    /\ UNCHANGED << lines, i, trades, t, positions, held >>

TypeInit ==
    /\ i = 0
    /\ trades = << >>
    /\ t = 0
    /\ positions = EmptyDict
    /\ held = EmptyDict
    /\ rows = EmptyDict
    /\ pc = "extract"

\* Statements of any lines of LineSet.
Init ==
    /\ lines \in Statements(LineSet, MaxLines)
    /\ TypeInit

\* Statements of one-line entries.
InitTrades ==
    /\ lines \in Statements(EntryLines, MaxTrades)
    /\ TypeInit

Next ==
    \/ ExtractStep
    \/ StartAggregate
    \/ AggregateStep
    \/ FilterHeld
    \/ WriteCSV

Spec == Init /\ [][Next]_vars

SpecTrades == InitTrades /\ [][Next]_vars

---------------------------------------------------------------------------
(* The claims.                                                             *)

\* The extraction loop has ended without raising.
Extracted == pc \in {"aggregate", "csv", "done"}

\* The aggregation loop has ended.
Aggregated == pc \in {"csv", "done"}

\* The float of the integer n.
Num(n) == Norm(n, 0)

\* The trade the aggregation loop takes next, its key, and the position
\* the pass starts from.
Cur == trades[t + 1]
CurOld ==
    IF Cur.isin \in DOMAIN positions THEN positions[Cur.isin]
    ELSE [total_qty |-> Zero, total_invested |-> Zero, buy_qty |-> Zero,
          sell_qty |-> Zero]
Taking(action) == pc = "aggregate" /\ t < Len(trades) /\ Cur.action = action

\* The trades of the security s the aggregation loop has taken.
Taken(s) == {n \in 1..t : trades[n].isin = s}
NoBuy(s) == \A n \in Taken(s) : trades[n].action # "buy"

\* C1: no statement makes the extraction raise: a window that matches the
\* pattern with a quantity or amount float() rejects is passed over and the
\* scan goes on.
C1_NeverRaises == pc # "ValueError"

\* The lines ls, each stripped, joined by blanks.
RECURSIVE JoinLines(_)
JoinLines(ls) ==
    IF ls = << >> THEN << >>
    ELSE IF Len(ls) = 1 THEN Strip(ls[1])
    ELSE JoinLines(SubSeq(ls, 1, Len(ls) - 1)) \o << SP >> \o Strip(ls[Len(ls)])

\* s is one well-formed trade entry and nothing else.
IsEntry(s) ==
    /\ Search(s) # << >>
    /\ LET g == Search(s)[1]
       IN  /\ s = EntryLine(g.g1, g.g2, g.g3, g.g4, g.g5)
           /\ ~Raises(g)

\* The statement is one entry on the k lines after line a, and lines that
\* do not match the pattern before and after it.
EntryAt(a, k) ==
    /\ a + k <= Len(lines)
    /\ IsEntry(JoinLines(SubSeq(lines, a + 1, a + k)))
    /\ \A j \in (1..Len(lines)) \ ((a + 1)..(a + k)) :
           Search(Strip(lines[j])) = << >>

\* The records of the output for the entry s.
RecordsOf(s) == {n \in 1..Len(trades) : trades[n] = TradeOf(Search(s)[1])}

\* C2: an entry on up to 4 consecutive lines, at any line position, with
\* lines that do not match before and after it, gives exactly one record.
C2_WrappedEntryOnce ==
    Extracted =>
        \A a \in 0..Len(lines), k \in 1..4 :
            EntryAt(a, k) =>
                Cardinality(RecordsOf(JoinLines(SubSeq(lines, a + 1, a + k)))) = 1

\* A buy adds its quantity to buy_qty and total_qty and its amount to
\* total_invested.
C3_BuyAdds ==
    Taking("buy") =>
        LET new == positions'[Cur.isin]
        IN  /\ new.buy_qty = FAdd(CurOld.buy_qty, Cur.quantity)
            /\ new.total_qty = FAdd(CurOld.total_qty, Cur.quantity)
            /\ new.total_invested = FAdd(CurOld.total_invested, Cur.amount)

\* total_invested less the average cost of the quantity sold.
LessAverageCost ==
    FSub(CurOld.total_invested,
         FMul(FDiv(CurOld.total_invested, CurOld.buy_qty), Cur.quantity))

\* A sell subtracts its quantity from total_qty and, with buy_qty > 0,
\* reduces total_invested by the average cost of the quantity sold.
C3_SellReduces ==
    Taking("sell") =>
        LET new == positions'[Cur.isin]
        IN  /\ new.total_qty = FSub(CurOld.total_qty, Cur.quantity)
            /\ FGreater(CurOld.buy_qty, Zero) =>
                   new.total_invested = LessAverageCost

\* The same, total_invested being set to 0 when the reduction would make it
\* negative.
C3_SellReducesClamped ==
    Taking("sell") =>
        LET new == positions'[Cur.isin]
        IN  /\ new.total_qty = FSub(CurOld.total_qty, Cur.quantity)
            /\ FGreater(CurOld.buy_qty, Zero) =>
                   new.total_invested =
                       IF FLess(LessAverageCost, Zero) THEN Zero
                       ELSE LessAverageCost

\* Buy 10 for 1000, then sell 4: cost basis 600, net quantity 6, reported
\* average price 60.
C3_Scenario ==
    (pc = "done" /\ lines = << BuyAt100, Sell4 >>) =>
        /\ positions[IS1].total_invested = Num(600)
        /\ positions[IS1].total_qty = Num(6)
        /\ rows[IS1].avg_price = Num(60)

\* C3 as claimed: average-cost accounting, a sell reducing the cost basis by
\* (cost_basis / cumulative_buy_quantity) * q whenever
\* cumulative_buy_quantity > 0.
C3_AverageCostUnclamped ==
    /\ [][C3_BuyAdds /\ C3_SellReduces]_vars
    /\ []C3_Scenario

\* C3, amended: average-cost accounting, a sell reducing the cost basis by
\* (cost_basis / cumulative_buy_quantity) * q whenever
\* cumulative_buy_quantity > 0, and to 0 when that would be negative; buy 10
\* for 1000 then sell 4 gives 600, 6 and the average price 60.
C3_AverageCost ==
    /\ [][C3_BuyAdds /\ C3_SellReducesClamped]_vars
    /\ []C3_Scenario

C3_ScenarioDone == pc = "done" /\ lines = << BuyAt100, Sell4 >>

\* C4 as claimed: total_invested is never negative, and a security sold
\* before any buy of it has total_invested 0 and a negative total_qty.
C4_NegativeBeforeBuy ==
    \A s \in DOMAIN positions :
        /\ ~FLess(positions[s].total_invested, Zero)
        /\ NoBuy(s) =>
               /\ positions[s].total_invested = Zero
               /\ FLess(positions[s].total_qty, Zero)

C4_NotNegative ==
    \A s \in DOMAIN positions :
        /\ ~FLess(positions[s].total_invested, Zero)
        /\ NoBuy(s) =>
               /\ positions[s].total_invested = Zero
               /\ ~FGreater(positions[s].total_qty, Zero)
               /\ (\E n \in Taken(s) : FGreater(trades[n].quantity, Zero)) =>
                      FLess(positions[s].total_qty, Zero)

C4_Clamps ==
    (Taking("sell") /\ FGreater(CurOld.buy_qty, Zero)
         /\ FLess(LessAverageCost, Zero)) =>
        positions'[Cur.isin].total_invested = Zero

\* C4, amended: total_invested is never negative after any trade; a sell
\* that would make it negative sets it to exactly 0; a security sold before
\* any buy of it has total_invested 0 and a total_qty that is negative once
\* a sell of a positive quantity was taken, and 0 before (sells of the
\* quantity 0).
C4_CostBasisNotNegative ==
    /\ []C4_NotNegative
    /\ [][C4_Clamps]_vars

\* A security bought and then sold beyond all it bought: the clamp has acted.
C4_OverSold ==
    \E s \in DOMAIN positions :
        /\ FGreater(positions[s].buy_qty, Zero)
        /\ FGreater(positions[s].sell_qty, positions[s].buy_qty)
        /\ positions[s].total_invested = Zero
        /\ FLess(positions[s].total_qty, Zero)

\* C5: after all trades, a security is in held if and only if its total_qty
\* is above 0.001: 0.0005, 0.001, 0 and a negative total_qty are out, 0.002
\* is in; every security of a trade is in positions.
C5_HeldIffAboveEpsilon ==
    Aggregated =>
        /\ DOMAIN positions = {trades[n].isin : n \in 1..Len(trades)}
        /\ DOMAIN held \subseteq DOMAIN positions
        /\ \A s \in DOMAIN held : held[s] = positions[s]
        /\ \A s \in DOMAIN positions :
               LET q == positions[s].total_qty
               IN  /\ s \in DOMAIN held
                       <=> FGreater(q, Float(<< "0", ".", "0", "0", "1" >>))
                   /\ (\/ q = Float(<< "0", ".", "0", "0", "0", "5" >>)
                       \/ q = Float(<< "0", ".", "0", "0", "1" >>)
                       \/ q = Zero
                       \/ FLess(q, Zero)) => s \notin DOMAIN held
                   /\ q = Float(<< "0", ".", "0", "0", "2" >>)
                          => s \in DOMAIN held

\* A security with total_qty exactly 0.001 is not held.
C5_AtEpsilonNotHeld ==
    /\ pc = "done"
    /\ IS2 \in DOMAIN positions
    /\ positions[IS2].total_qty = Float(<< "0", ".", "0", "0", "1" >>)
    /\ IS2 \notin DOMAIN held

\* C6: buy 10 at 100, sell 5, buy 10 at 200 reports the average price 125;
\* buy 10 at 200, buy 10 at 100, sell 5 reports 112.5; total_qty is 15 and
\* buy_qty 20 in both orders.
C6_OrderDependent ==
    pc = "done" =>
        /\ lines = << BuyAt100, Sell5, BuyAt200 >> =>
               /\ rows[IS1].avg_price = Num(125)
               /\ positions[IS1].total_qty = Num(15)
               /\ positions[IS1].buy_qty = Num(20)
        /\ lines = << BuyAt200, BuyAt100, Sell5 >> =>
               /\ rows[IS1].avg_price = Norm(225, -1)
               /\ positions[IS1].total_qty = Num(15)
               /\ positions[IS1].buy_qty = Num(20)

C6_ReverseOrderDone == pc = "done" /\ lines = << BuyAt200, BuyAt100, Sell5 >>

\* C7 as claimed: every record of trades has quantity > 0 and amount >= 0.
C7_QuantityPositive ==
    \A n \in 1..Len(trades) :
        /\ FGreater(trades[n].quantity, Zero)
        /\ ~FLess(trades[n].amount, Zero)

\* C7, amended: every record of trades has quantity >= 0 and amount >= 0; a
\* record of quantity 0 is appended, with the price 0, and a record of a
\* positive quantity has the price amount / quantity.
C7_QuantityNotNegative ==
    \A n \in 1..Len(trades) :
        /\ ~FLess(trades[n].quantity, Zero)
        /\ ~FLess(trades[n].amount, Zero)
        /\ trades[n].price =
               IF trades[n].quantity = Zero THEN Zero
               ELSE FDiv(trades[n].amount, trades[n].quantity)

C7_ZeroQuantityAppended ==
    \E n \in 1..Len(trades) :
        trades[n].quantity = Zero /\ FGreater(trades[n].amount, Zero)

\* C8: every step of the scan moves the line position on by exactly 1,
\* match or not, appending at most one record at the end of trades, until
\* the position is the number of lines, where the scan ends.
C8_AdvancesByOne ==
    [][pc = "extract" =>
          IF i < Len(lines)
          THEN /\ i' = i + 1
               /\ pc' = "extract"
               /\ Len(trades') <= Len(trades) + 1
               /\ SubSeq(trades', 1, Len(trades)) = trades
          ELSE /\ i' = i
               /\ trades' = trades
               /\ pc' = "aggregate"]_vars

\* The first trade of s the aggregation loop has taken.
FirstTaken(s) == trades[Min(Taken(s))]

\* The position a first trade leaves, from totals of 0.
AfterFirst(tr) ==
    IF tr.action = "buy"
    THEN [isin |-> tr.isin, name |-> tr.name, total_qty |-> tr.quantity,
          total_invested |-> tr.amount, buy_qty |-> tr.quantity,
          sell_qty |-> Zero]
    ELSE [isin |-> tr.isin, name |-> tr.name,
          total_qty |-> FNeg(tr.quantity), total_invested |-> Zero,
          buy_qty |-> Zero, sell_qty |-> tr.quantity]

C9_Created ==
    /\ DOMAIN positions = {trades[n].isin : n \in 1..t}
    /\ \A s \in DOMAIN positions :
           /\ positions[s].isin = s
           /\ positions[s].name = FirstTaken(s).name
           /\ Cardinality(Taken(s)) = 1 => positions[s] = AfterFirst(FirstTaken(s))

C9_Frame ==
    \A s \in DOMAIN positions :
        /\ s \in DOMAIN positions'
        /\ positions'[s].name = positions[s].name
        /\ positions'[s].isin = positions[s].isin
        /\ (pc = "aggregate" /\ t < Len(trades) /\ Cur.isin # s) =>
               positions'[s] = positions[s]

\* C9: the position of s is there exactly from the first trade of s on, is
\* what that trade makes of totals of 0, and has that trade's name; no later
\* trade changes its name or isin, a trade of another security leaves it
\* as it is, and no position leaves the dict.
C9_LazyCreation ==
    /\ []C9_Created
    /\ [][C9_Frame]_vars

\* A position whose name is not that of a later trade of its security.
C9_LaterNameDiffers ==
    \E s \in DOMAIN positions :
        \E n \in Taken(s) : trades[n].name # positions[s].name

\* C10 as claimed: total_qty = buy_qty - sell_qty in every position.
C10_TotalIsBuyLessSell ==
    \A s \in DOMAIN positions :
        positions[s].total_qty = FSub(positions[s].buy_qty, positions[s].sell_qty)

C10_Monotone ==
    \A s \in DOMAIN positions :
        /\ ~FLess(positions'[s].buy_qty, positions[s].buy_qty)
        /\ ~FLess(positions'[s].sell_qty, positions[s].sell_qty)

C10_HeldBought ==
    /\ \A s \in DOMAIN positions :
           ~FGreater(positions[s].total_qty, positions[s].buy_qty)
    /\ Aggregated =>
           \A s \in DOMAIN held : FGreater(held[s].buy_qty, Zero)
    /\ pc = "done" =>
           \A s \in DOMAIN rows :
               rows[s].avg_price =
                   PyRound(FDiv(held[s].total_invested, held[s].buy_qty), 2)

\* C10, amended: in every position total_qty <= buy_qty (it is
\* buy_qty - sell_qty only up to the rounding of the floats), buy_qty and
\* sell_qty never decrease, every held position has buy_qty > 0, and the
\* average price of every row written is total_invested / buy_qty, never
\* the fallback 0.
C10_HeldHasBuys ==
    /\ []C10_HeldBought
    /\ [][C10_Monotone]_vars

\* A row is written for a security that was bought and sold.
C10_RowAfterSell ==
    /\ pc = "done"
    /\ \E s \in DOMAIN rows : FGreater(held[s].sell_qty, Zero)

=============================================================================
